---- MODULE Spec2Model ----
(***************************************************************************)
(* Crawl orchestration of the restaurant scraper: run_full_scrape          *)
(* (src/scraper/main.py), its checkpoint file and the restaurants table    *)
(* (src/scraper/database.py).  One process runs at a time; it can be       *)
(* killed between any two steps and started again, with or without resume. *)
(* fetch_with_retry, which every page fetch goes through, is modelled on   *)
(* its own (SpecFetch), and so is ProxyPool of src/scraper/proxy_pool.py   *)
(* (SpecPool).                                                             *)
(***************************************************************************)
EXTENDS Integers, Sequences, FiniteSets, TLC

(***************************************************************************)
(* Bounds of the model and program constants.                              *)
(***************************************************************************)
\* main.py:19 sets MAX_PAGES = 50; the model scans a shorter listing.
MAX_PAGES == 7
\* main.py:20
EMPTY_PAGE_THRESHOLD == 3
\* config scraping.batch_size (main.py:253, default 25), scaled down.
batch_size == 2
\* Most URLs one listing page yields.
MaxPerPage == 1
\* Largest retry.max_attempts of the configurations tried (main.py:28
\* defaults to 3).
MaxAttempts == 3
\* proxy_pool.py:13, seconds
MIN_ROTATION_WAIT == 10
\* The clock of the model stops here (seconds).
MaxTime == 32
\* Largest scraping.rotation_count of the configurations tried
\* (proxy_pool.py:27 defaults to 9).
MaxRotationCount == 3
\* Largest query_count passed to rotate_if_needed.
MaxQueryCount == 6
\* Most rows of restaurant_history: a page that would change a stored record
\* once more is not served.
MaxHistory == 1
MaxFields == 3
MaxCalls == 4

\* A URL is <<directory, slug>>: ".../<directory>/restaurante/<slug>".
\* Two of the URLs end in the same slug.
URLS == { <<"madrid", "r1">>, <<"madrid", "r2">>, <<"bilbao", "r2">> }
\* Values of content_hash.
HASHES == { "h1", "h2" }
\* fetch_with_retry returns None (or an empty body) on exhaustion.
None == "None"
\* The proxies a pool can hand out (proxy_pool.get_proxy()).
PROXIES == { "p1", "p2" }
\* retry.base_delay_seconds of the configurations tried (main.py:29
\* defaults to 5).
BASE_DELAYS == { 1, 5 }
\* What one call of browser.fetch can do: return a page, return a page with
\* a denial marker (main.py:37), or raise.
OUTCOMES == { "ok", "block", "error" }

(***************************************************************************)
(* Helpers.                                                                *)
(***************************************************************************)
Range(s) == { s[k] : k \in 1..Len(s) }

NoDup(s) == \A a, b \in 1..Len(s) : a # b => s[a] # s[b]

\* dict.get(key, default)
Get(d, k, default) == IF k \in DOMAIN d THEN d[k] ELSE default

\* The lists parse_listing_page can return: it collects the hrefs in a set
\* (seen_urls) and iterates over it, so no URL repeats and the order is any.
ListingResults ==
    { s \in UNION { [1..n -> URLS] : n \in 0..MaxPerPage } : NoDup(s) }

\* url.rstrip("/").split("/")[-1]
_extract_michelin_id(url) == url[2]

\* parse_detail_page always returns a dict; its content_hash is the hash of
\* the fields extracted from the html.
parse_detail_page(html, url) ==
    [michelin_id |-> _extract_michelin_id(url), content_hash |-> html]

ZeroStats == [added |-> 0, modified |-> 0, unchanged |-> 0, failed |-> 0]

\* load_checkpoint() of a missing file, and "resume = False", give {}.
EmptyDict == [k \in {} |-> 0]

\* The checkpoint file does not exist.
NoFile == [absent |-> TRUE]

\* The checkpoint file holds what a write that failed half-way left:
\* open(CHECKPOINT_FILE, "w") empties the file before json.dump writes.
Torn == [torn |-> TRUE]

VARIABLES
    pc,               \* position of the process: idle, scan, fetch, batch, done,
                      \* uscan, ufetch, udone (run_update_scrape), crashed
    checkpoint_file,  \* content of checkpoint.json, or NoFile
    db,               \* restaurants table: michelin_id -> content_hash or None
    restaurant_history, \* restaurant_history table: the rows, oldest first
    resume,           \* the resume argument of run_full_scrape
    checkpoint,       \* run_full_scrape locals
    pass_phase,
    collected_urls,
    processed_urls,
    start_page,
    page_num,
    consecutive_empty,
    remaining,
    i,                \* number of items the fetch loop has taken
    total_stats,
    existing_hashes,  \* run_update_scrape local
    events,           \* history: what the collaborators returned for each item of this run
    scanned,          \* history of this run's scan loop (see ScannedInit)
    hist,             \* history of the crawl this run belongs to (see HistInit)
    saved,            \* history: hist as it was at the last checkpoint write
    failed_before,    \* history: the URLs the run that was just killed had counted failed
    f_pc,             \* position of a call of fetch_with_retry: idle, try, returned
    max_attempts,     \* config retry.max_attempts
    base_delay,       \* config retry.base_delay_seconds
    proxy_pool,       \* fetch_with_retry argument: TRUE when a pool is passed
    proxy,            \* fetch_with_retry local: a proxy of PROXIES, or None
    attempt,          \* fetch_with_retry loop variable (0-indexed)
    tries,            \* history: one record per call of browser.fetch (see Try)
    result,           \* what the call returned: a content, or None
    now,              \* time.time(), in seconds
    _last_rotation,   \* ProxyPool._last_rotation
    rotation_count,   \* ProxyPool.rotation_count
    tor_endpoint,     \* ProxyPool.tor_host and tor_port
    newnym,           \* history: the times at which a NEWNYM signal was sent
    last_call,        \* history: the latest call of a ProxyPool method (see Call)
    since_delay,      \* history: the detail fetches of this run since its last
                      \* asyncio.sleep(batch_delay)
    records,          \* the dicts of which parse_detail_page takes the content_hash
    content_hashes,   \* the content_hash of each, or NoHash
    upsert_pc,        \* position of a call of upsert_restaurant made on its own:
                      \* idle, insert, save_history, update, commit
    upsert_data,      \* upsert_restaurant argument
    existing,         \* upsert_restaurant local: the stored content_hash, or None
    uncommitted,      \* the tables as the connection sees them: db and
                      \* restaurant_history with the statements not yet committed
    returned_actions  \* history: the actions the calls made on their own returned

\* The variables of fetch_with_retry.
fetcher == << f_pc, max_attempts, base_delay, proxy_pool, proxy, attempt, tries,
              result >>

\* The variables of ProxyPool.
tor == << now, _last_rotation, rotation_count, tor_endpoint, newnym, last_call >>

\* The variables of the content hash of parse_detail_page.
hashing == << records, content_hashes >>

\* The variables of a call of upsert_restaurant made on its own.
upsert == << upsert_pc, upsert_data, existing, uncommitted, returned_actions >>

vars == << pc, checkpoint_file, db, restaurant_history, resume, checkpoint, pass_phase, collected_urls,
           processed_urls, start_page, page_num, consecutive_empty, remaining, i,
           total_stats, existing_hashes, events, scanned, hist, saved,
           failed_before, since_delay, fetcher, tor, hashing, upsert >>

locals == << resume, checkpoint, pass_phase, collected_urls, processed_urls, start_page,
             page_num, consecutive_empty, remaining, i, total_stats,
             existing_hashes >>

SLUGS == { _extract_michelin_id(u) : u \in URLS }

EmptyTable == [m \in SLUGS |-> None]

\* The history of a crawl (a fresh start and the resumed runs that continue
\* it).  No action reads it to decide what the program does.
\*   group  : how each URL was handled: pending, ok (upserted) or failed
\*   listed : the URLs the listing pages yielded
\*   ref    : the scan of the same pages by a run that is never interrupted:
\*            its collected_urls, its consecutive_empty and its last page
\*   pages  : the number of listing pages the scan of the crawl has handled
\*   save_failed : save_checkpoint raised in the run that has just ended
HistInit ==
    [ group  |-> [u \in URLS |-> "pending"],
      listed |-> {},
      ref    |-> [collected_urls |-> <<>>, consecutive_empty |-> 0, last_page |-> 0],
      pages  |-> 0,
      save_failed |-> FALSE ]

\* The history of one scan loop.
\*   last_nonempty : the last page whose listing was not empty (0: none yet)
\*   prev_len      : Len(collected_urls) before the latest page was merged
ScannedInit == [last_nonempty |-> 0, prev_len |-> 0, fetched |-> TRUE]

\* No call of fetch_with_retry is under way; main.py:28-29 give the defaults.
FetcherIdle ==
    /\ f_pc = "idle"
    /\ max_attempts = 3
    /\ base_delay = 5
    /\ proxy_pool = FALSE
    /\ proxy = None
    /\ attempt = 0
    /\ tries = <<>>
    /\ result = None

(***************************************************************************)
(* The content hash of a record (parser.py:163-165).  A dict is a sequence *)
(* of <<key, value>> pairs in insertion order, no key twice.               *)
(***************************************************************************)
\* The keys the modelled dicts may hold, and their values.
KEYS == { "name", "stars", "updated_at" }

VALUES == { "x", "y" }

\* "k not in ('created_at', 'updated_at')", parser.py:164
TIMESTAMPS == { "created_at", "updated_at" }

Dicts ==
    { d \in UNION { [1..n -> KEYS \X VALUES] : n \in 0..MaxFields } :
        \A a, b \in 1..Len(d) : a # b => d[a][1] # d[b][1] }

\* Faulty variant of hash_data: the timestamps are kept.
hash_data_all(data) == data

\* parser.py:164, the dict comprehension: the items of data whose key is not
\* a timestamp, in the order of data
hash_data(data) ==
    LET kept(kv) == kv[1] \notin TIMESTAMPS
    IN  SelectSeq(data, kept)

\* The order in which the canonical form lists the keys.
KeyOrder == << "created_at", "name", "stars", "updated_at" >>

\* compute_content_hash: the fields are put in the canonical order of their
\* keys and the result is hashed.  The hash is taken to be free of
\* collisions, so it is modelled by the canonical form it is computed from.
compute_content_hash(fields) ==
    LET present(k) == \E j \in 1..Len(fields) : fields[j][1] = k
        keys       == SelectSeq(KeyOrder, present)
        item(k)    == fields[CHOOSE j \in 1..Len(fields) : fields[j][1] = k]
    IN  [n \in 1..Len(keys) |-> item(keys[n])]

\* parser.py:164-165, the content_hash parse_detail_page gives to data
content_hash_of(data) == compute_content_hash(hash_data(data))

\* No content_hash has been computed.
NoHash == << <<None, None>> >>

HashIdle ==
    /\ records = << <<>>, <<>> >>
    /\ content_hashes = << NoHash, NoHash >>

\* No call of upsert_restaurant is under way and none was made on its own.
UpsertIdle ==
    /\ upsert_pc = "idle"
    /\ upsert_data = [michelin_id |-> None, content_hash |-> None]
    /\ existing = None
    /\ uncommitted = [restaurants |-> EmptyTable, restaurant_history |-> <<>>]
    /\ returned_actions = <<>>

InitCrawl ==
    /\ pc = "idle"
    /\ checkpoint_file = NoFile
    /\ db = EmptyTable
    /\ restaurant_history = <<>>
    /\ resume = FALSE
    /\ checkpoint = EmptyDict
    /\ pass_phase = "scan"
    /\ collected_urls = <<>>
    /\ processed_urls = {}
    /\ start_page = 1
    /\ page_num = 1
    /\ consecutive_empty = 0
    /\ remaining = <<>>
    /\ i = 0
    /\ total_stats = ZeroStats
    /\ existing_hashes = EmptyTable
    /\ events = <<>>
    /\ scanned = ScannedInit
    /\ hist = HistInit
    /\ saved = HistInit
    /\ failed_before = {}
    /\ since_delay = 0

\* What the history keeps of a call of rotate_if_needed or force_rotate.
\*   op       : the method
\*   query_count : its argument (0 for force_rotate)
\*   asked    : _rotate was called
\*   waited   : the seconds _rotate slept before it turned to the control port
\*   sent     : the NEWNYM signal was sent
\*   before   : _last_rotation when the call began
\*   returned : "True", "False" or "None"; raised: an exception left the call
Call(op, q, asked, waited, sent, before, returned) ==
    [op |-> op, query_count |-> q, asked |-> asked, waited |-> waited,
     sent |-> sent, before |-> before, returned |-> returned, raised |-> FALSE]

\* proxy_pool.py:17-30, a pool just built.  time.time() counts from 1970, so
\* the clock is far more than MIN_ROTATION_WAIT ahead of _last_rotation = 0.0.
PoolBuilt ==
    /\ now = MIN_ROTATION_WAIT
    /\ _last_rotation = 0
    /\ tor_endpoint = << "127.0.0.1", 9050 >>
    /\ newnym = <<>>
    /\ last_call = Call("__init__", 0, FALSE, 0, FALSE, 0, "None")

Init == InitCrawl /\ FetcherIdle /\ PoolBuilt /\ rotation_count = 9 /\ HashIdle /\ UpsertIdle

(***************************************************************************)
(* Pieces of run_full_scrape and run_update_scrape.                        *)
(***************************************************************************)
\* main.py:60-65 (of a file json.load can read)
load_checkpoint == IF checkpoint_file = NoFile THEN EmptyDict ELSE checkpoint_file

\* Faulty variant of LoadedCheckpoint: the file is loaded whatever resume says.
LoadedCheckpointAlways(flag) == load_checkpoint

\* main.py:173
LoadedCheckpoint(flag) == IF flag THEN load_checkpoint ELSE EmptyDict

\* Faulty variant of FirstPage: the scan starts over at page 1.
FirstPageOne(loaded) == 1

\* main.py:193
FirstPage(loaded) == Get(loaded, "last_page", 0) + 1

\* Faulty variant of PassPhase: the phase of the checkpoint is not read.
PassPhaseScan(loaded) == "scan"

\* main.py:186
PassPhase(loaded) == Get(loaded, "pass_phase", "scan")

\* Faulty variant of LoopContinues: "or" for "and".
LoopContinuesEither(pn, ce) == pn <= MAX_PAGES \/ ce < EMPTY_PAGE_THRESHOLD

\* main.py:199 (and 336), the condition of the scan loop
LoopContinues(pn, ce) == pn <= MAX_PAGES /\ ce < EMPTY_PAGE_THRESHOLD

\* Faulty variant of NextEmpty: a page that lists something does not reset the count.
NextEmptyNoReset(ce, restaurants) == IF restaurants = <<>> THEN ce + 1 ELSE ce

\* main.py:211-215 (and 339-343)
NextEmpty(ce, restaurants) == IF restaurants = <<>> THEN ce + 1 ELSE 0

\* Faulty variant of Merge: every listed URL is appended.
MergeAll(collected, restaurants) == collected \o restaurants

\* main.py:216-219 (and 344-347); seen is the set of the URLs of collected_urls
RECURSIVE Merge(_, _)
Merge(collected, restaurants) ==
    IF restaurants = <<>> THEN collected
    ELSE Merge(IF Head(restaurants) \in Range(collected) THEN collected
               ELSE Append(collected, Head(restaurants)),
               Tail(restaurants))

\* Faulty variant of Remaining: the processed URLs are not filtered out.
RemainingAll(collected, processed) == collected

\* Faulty variant of Remaining: the first unprocessed URL is skipped.
RemainingButFirst(collected, processed) ==
    LET rest == SelectSeq(collected, LAMBDA u : u \notin processed)
    IN  IF rest = <<>> THEN rest ELSE Tail(rest)

\* main.py:252
Remaining(collected, processed) ==
    SelectSeq(collected, LAMBDA u : u \notin processed)

\* Faulty variant of MarkProcessed: the URL is not recorded.
ForgetProcessed(processed, url) == processed

\* Faulty variant of MarkProcessed: every URL of the same restaurant is recorded.
MarkProcessedBySlug(processed, url) ==
    processed \cup { u \in URLS : _extract_michelin_id(u) = _extract_michelin_id(url) }

\* main.py:263, 269, 283
MarkProcessed(processed, url) == processed \cup {url}

\* main.py:286; n is i + 1, the number of items taken so far
BatchDue(n) == n % batch_size = 0

\* Faulty variant of UpsertAction: a stored record always counts as modified.
UpsertActionNoCompare(table, data) ==
    IF table[data.michelin_id] = None THEN "added" ELSE "modified"

\* database.py:68-105, the action upsert_restaurant returns
UpsertAction(table, data) ==
    IF table[data.michelin_id] = None THEN "added"
    ELSE IF table[data.michelin_id] = data.content_hash THEN "unchanged"
    ELSE "modified"

\* database.py:68-105, the restaurants table after upsert_restaurant
UpsertTable(table, data) ==
    IF UpsertAction(table, data) = "unchanged" THEN table
    ELSE [table EXCEPT ![data.michelin_id] = data.content_hash]

\* A row of restaurant_history: the record as it was stored (database.py:107-115).
Snapshot(table, michelin_id) ==
    [michelin_id |-> michelin_id, content_hash |-> table[michelin_id]]

\* Faulty variant of UpsertHistory: the snapshot is taken of the new record.
UpsertHistoryOfNew(history, table, data) ==
    IF UpsertAction(table, data) = "modified"
    THEN Append(history, Snapshot(UpsertTable(table, data), data.michelin_id))
    ELSE history

\* Faulty variant of UpsertHistory: a snapshot is taken of every stored record.
UpsertHistoryAlways(history, table, data) ==
    IF UpsertAction(table, data) = "added" THEN history
    ELSE Append(history, Snapshot(table, data.michelin_id))

\* database.py:99-100 and 107-115, restaurant_history after upsert_restaurant
UpsertHistory(history, table, data) ==
    IF UpsertAction(table, data) = "modified"
    THEN Append(history, Snapshot(table, data.michelin_id))
    ELSE history

\* restaurant_history has room for what upsert_restaurant(data) would add.
HistoryFits(table, data) ==
    UpsertAction(table, data) = "modified" => Len(restaurant_history) < MaxHistory

\* Faulty variant of Count: unchanged records are not counted.
CountChangesOnly(stats, key) ==
    IF key = "unchanged" THEN stats ELSE [stats EXCEPT ![key] = @ + 1]

\* total_stats[key] += 1
Count(stats, key) == [stats EXCEPT ![key] = @ + 1]

\* The readings of the clock the model tells apart.
TIMES == { "t1", "t2" }

\* datetime.utcnow().isoformat(): time has passed since the file on disk was
\* written, so the reading is not the started_at that file holds.
utcnow ==
    IF checkpoint_file \notin {NoFile, Torn}
    THEN CHOOSE t \in TIMES : t # checkpoint_file.started_at
    ELSE CHOOSE t \in TIMES : TRUE

\* checkpoint.get("started_at", datetime.utcnow().isoformat()),
\* main.py:226, 247, 293
started_at == Get(checkpoint, "started_at", utcnow)

\* Faulty variant of ScanCheckpoint: the list is saved as it was before the merge.
ScanCheckpointStale(pn, collected, processed) ==
    [pass_phase |-> "scan", last_page |-> pn,
     collected_urls |-> collected_urls, processed_urls |-> processed,
     started_at |-> started_at]

\* Faulty variant of ScanCheckpoint: the page to scan next is saved as last page.
ScanCheckpointAhead(pn, collected, processed) ==
    [pass_phase |-> "scan", last_page |-> pn + 1,
     collected_urls |-> collected, processed_urls |-> processed,
     started_at |-> started_at]

\* main.py:221-227
ScanCheckpoint(pn, collected, processed) ==
    [pass_phase |-> "scan", last_page |-> pn,
     collected_urls |-> collected, processed_urls |-> processed,
     started_at |-> started_at]

\* Faulty variant of ScrapeCheckpoint: the phase is not advanced.
ScrapeCheckpointAsScan(collected, processed) ==
    [pass_phase |-> "scan",
     collected_urls |-> collected, processed_urls |-> processed,
     started_at |-> started_at]

\* main.py:243-248 and 289-294
ScrapeCheckpoint(collected, processed) ==
    [pass_phase |-> "scrape",
     collected_urls |-> collected, processed_urls |-> processed,
     started_at |-> started_at]

\* Faulty variant of clear_checkpoint: the file is left in place.
keep_checkpoint == checkpoint_file

\* main.py:74-77
clear_checkpoint == NoFile

\* The uninterrupted run takes page p when it stands at p and its loop goes on.
RefStep(r, p, restaurants) ==
    IF r.last_page + 1 = p /\ LoopContinues(p, r.consecutive_empty)
    THEN [collected_urls    |-> Merge(r.collected_urls, restaurants),
          consecutive_empty |-> NextEmpty(r.consecutive_empty, restaurants),
          last_page         |-> p]
    ELSE r

\* The scan history after page pn yielded restaurants.
ScannedStep(pn, collected, restaurants, html) ==
    [last_nonempty |-> IF restaurants = <<>> THEN scanned.last_nonempty ELSE pn,
     prev_len      |-> Len(collected),
     fetched       |-> html # None]

\* What fetch_with_retry returns for a listing page: its html, or None.
LISTING_HTML == { "listing", None }

\* Faulty variant of scrape_listing_page: "if not html" is not tested.
scrape_listing_page_unchecked(html, parsed) == parsed

\* main.py:98-111, scrape_listing_page: [] when fetch_with_retry gave
\* nothing, else what parse_listing_page made of the html (parsed).
scrape_listing_page(html, parsed) == IF html = None THEN <<>> ELSE parsed

\* Faulty variant of AfterSaveError: the exception is swallowed.
AfterSaveErrorSwallowed(p) == IF p = "batch" THEN "fetch" ELSE p

\* main.py:221, 243, 289: save_checkpoint is called outside any try, so what
\* it raises ends run_full_scrape (and asyncio.run, main.py:437).
AfterSaveError(p) == "aborted"

\* Faulty variant of Delay: the exponent counts attempts from 1.
DelayFromOne(a, base) == (2 ^ (a + 1)) * base

\* main.py:50
Delay(a, base) == (2 ^ a) * base

\* Faulty variant of HasNext: one attempt too many.
HasNextInclusive(a, max) == a + 1 <= max

\* main.py:33, "for attempt in range(max_attempts)": there is an attempt after a
HasNext(a, max) == a + 1 < max

\* The URLs an ended run counted failed.
FailedIn(ev) == { ev[k].url : k \in { n \in 1..Len(ev) : ev[n].html = None } }

(***************************************************************************)
(* Actions of run_full_scrape.                                             *)
(***************************************************************************)
\* main.py:170-197 and, when the checkpoint is in the scrape phase, 251-254.
\* asyncio.run(run_full_scrape(config, logger, resume, use_proxies = False))
Start(flag) ==
    /\ pc \in {"idle", "done", "udone", "crashed", "aborted"}
    /\ ~(flag /\ checkpoint_file = Torn)
    /\ resume' = flag
    /\ LET loaded    == LoadedCheckpoint(flag)
           phase     == PassPhase(loaded)
           collected == Get(loaded, "collected_urls", <<>>)
           processed == Get(loaded, "processed_urls", {})
           first     == FirstPage(loaded)
       IN  /\ checkpoint' = loaded
           /\ pass_phase' = phase
           /\ collected_urls' = collected
           /\ processed_urls' = processed
           /\ total_stats' = ZeroStats
           /\ consecutive_empty' = 0
           /\ i' = 0
           /\ IF phase = "scan"
              THEN /\ start_page' = first
                   /\ page_num' = first
                   /\ remaining' = <<>>
                   /\ pc' = "scan"
              ELSE /\ start_page' = 1
                   /\ page_num' = 1
                   /\ remaining' = Remaining(collected, processed)
                   /\ pc' = "fetch"
           /\ hist' = IF DOMAIN loaded = {} THEN HistInit ELSE saved
           /\ failed_before' = {}
           /\ scanned' = [last_nonempty |-> IF phase = "scan" THEN first - 1 ELSE 0,
                          prev_len |-> Len(collected), fetched |-> TRUE]
    /\ events' = <<>>
    /\ since_delay' = 0
    /\ existing_hashes' = EmptyTable
    /\ UNCHANGED fetcher
    /\ UNCHANGED tor
    /\ UNCHANGED hashing
    /\ UNCHANGED upsert
    /\ UNCHANGED << checkpoint_file, db, restaurant_history, saved >>

\* main.py:176-180 and 318-322 with use_proxies = True: ProxyPool
\* (proxy_pool.py) has no refresh method, so the call raises AttributeError
\* and the run ends there.
StartWithProxies ==
    /\ pc \in {"idle", "done", "udone", "crashed", "aborted"}
    /\ pc' = "crashed"
    /\ resume' = FALSE
    /\ checkpoint' = EmptyDict
    /\ pass_phase' = "scan"
    /\ collected_urls' = <<>>
    /\ processed_urls' = {}
    /\ start_page' = 1
    /\ page_num' = 1
    /\ consecutive_empty' = 0
    /\ remaining' = <<>>
    /\ i' = 0
    /\ total_stats' = ZeroStats
    /\ existing_hashes' = EmptyTable
    /\ events' = <<>>
    /\ since_delay' = 0
    /\ scanned' = ScannedInit
    /\ hist' = HistInit
    /\ failed_before' = {}
    /\ UNCHANGED fetcher
    /\ UNCHANGED tor
    /\ UNCHANGED hashing
    /\ UNCHANGED upsert
    /\ UNCHANGED << checkpoint_file, db, restaurant_history, saved >>

\* main.py:199-235, one iteration of the scan loop.  restaurants is what
\* scrape_listing_page returns: [] when the fetch is exhausted (main.py:106).
ScanPage ==
    /\ pc = "scan"
    /\ LoopContinues(page_num, consecutive_empty)
    /\ \E html \in LISTING_HTML, parsed \in ListingResults :
       LET restaurants == scrape_listing_page(html, parsed)
       IN
         /\ consecutive_empty' = NextEmpty(consecutive_empty, restaurants)
         /\ collected_urls' = Merge(collected_urls, restaurants)
         /\ checkpoint_file' = ScanCheckpoint(page_num, collected_urls', processed_urls)
         /\ hist' = [hist EXCEPT !.listed = @ \cup Range(restaurants),
                                 !.ref = RefStep(@, page_num, restaurants),
                                 !.pages = @ + 1]
         /\ scanned' = ScannedStep(page_num, collected_urls, restaurants, html)
    /\ saved' = hist'
    /\ page_num' = page_num + 1
    /\ UNCHANGED fetcher
    /\ UNCHANGED tor
    /\ UNCHANGED hashing
    /\ UNCHANGED upsert
    /\ UNCHANGED since_delay
    /\ UNCHANGED << resume, pc, db, restaurant_history, checkpoint, pass_phase, processed_urls, start_page,
                    remaining, i, total_stats, existing_hashes, events,
                    failed_before >>

\* main.py:237-254, leaving the scan loop.  The histories of the scan end here.
ScanExit ==
    /\ pc = "scan"
    /\ ~LoopContinues(page_num, consecutive_empty)
    /\ checkpoint_file' = ScrapeCheckpoint(collected_urls, processed_urls)
    /\ remaining' = Remaining(collected_urls, processed_urls)
    /\ i' = 0
    /\ pc' = "fetch"
    /\ scanned' = ScannedInit
    /\ hist' = [hist EXCEPT !.ref = HistInit.ref, !.pages = 0]
    /\ saved' = hist'
    /\ UNCHANGED fetcher
    /\ UNCHANGED tor
    /\ UNCHANGED hashing
    /\ UNCHANGED upsert
    /\ UNCHANGED since_delay
    /\ UNCHANGED << resume, db, restaurant_history, checkpoint, pass_phase, collected_urls, processed_urls,
                    start_page, page_num, consecutive_empty, total_stats,
                    existing_hashes, events, failed_before >>

\* main.py:256-286, one item of the fetch loop.  html is what fetch_with_retry
\* returns.  Both failure branches "continue", past the batch block.
FetchItem ==
    /\ pc = "fetch"
    /\ i < Len(remaining)
    /\ LET url == remaining[i + 1]
       IN \E html \in HASHES \cup {None} :
            LET data   == parse_detail_page(html, url)
                \* "if not html" (main.py:261), "if not data" (main.py:267)
                failed == html = None \/ DOMAIN data = {}
                action == IF failed THEN "failed" ELSE UpsertAction(db, data)
            IN  /\ failed \/ HistoryFits(db, data)
                /\ total_stats' = Count(total_stats, action)
                /\ db' = IF failed THEN db ELSE UpsertTable(db, data)
                /\ restaurant_history' =
                      IF failed THEN restaurant_history
                      ELSE UpsertHistory(restaurant_history, db, data)
                /\ processed_urls' = MarkProcessed(processed_urls, url)
                /\ pc' = IF ~failed /\ BatchDue(i + 1) THEN "batch" ELSE "fetch"
                /\ events' = Append(events,
                       [url |-> url, html |-> html,
                        prior |-> db[_extract_michelin_id(url)]])
                /\ hist' = [hist EXCEPT !.group[url] = IF failed THEN "failed" ELSE "ok"]
    /\ i' = i + 1
    /\ since_delay' = since_delay + 1
    /\ UNCHANGED fetcher
    /\ UNCHANGED tor
    /\ UNCHANGED hashing
    /\ UNCHANGED upsert
    /\ UNCHANGED << resume, checkpoint_file, checkpoint, pass_phase, collected_urls,
                    start_page, page_num, consecutive_empty, remaining,
                    existing_hashes, scanned, saved, failed_before >>

\* main.py:286-297, the batch block
BatchCheckpoint ==
    /\ pc = "batch"
    /\ checkpoint_file' = ScrapeCheckpoint(collected_urls, processed_urls)
    /\ saved' = hist
    /\ pc' = "fetch"
    \* asyncio.sleep(batch_delay), main.py:297
    /\ since_delay' = 0
    /\ UNCHANGED fetcher
    /\ UNCHANGED tor
    /\ UNCHANGED hashing
    /\ UNCHANGED upsert
    /\ UNCHANGED << db, restaurant_history, locals, events, scanned, hist, failed_before >>

\* main.py:299-309
Finish ==
    /\ pc = "fetch"
    /\ i = Len(remaining)
    /\ checkpoint_file' = clear_checkpoint
    /\ saved' = IF checkpoint_file' = NoFile THEN HistInit ELSE saved
    /\ pc' = "done"
    /\ UNCHANGED fetcher
    /\ UNCHANGED tor
    /\ UNCHANGED hashing
    /\ UNCHANGED upsert
    /\ UNCHANGED since_delay
    /\ UNCHANGED << db, restaurant_history, locals, events, scanned, hist, failed_before >>

(***************************************************************************)
(* Actions of run_update_scrape.                                           *)
(***************************************************************************)
\* main.py:312-334 with use_proxies = False
UpdateStart ==
    /\ pc \in {"idle", "done", "udone", "crashed", "aborted"}
    /\ pc' = "uscan"
    /\ existing_hashes' = db
    /\ resume' = FALSE
    /\ checkpoint' = EmptyDict
    /\ pass_phase' = "scan"
    /\ collected_urls' = <<>>
    /\ processed_urls' = {}
    /\ start_page' = 1
    /\ page_num' = 1
    /\ consecutive_empty' = 0
    /\ remaining' = <<>>
    /\ i' = 0
    /\ total_stats' = ZeroStats
    /\ events' = <<>>
    /\ since_delay' = 0
    /\ scanned' = ScannedInit
    /\ hist' = HistInit
    /\ failed_before' = {}
    /\ UNCHANGED fetcher
    /\ UNCHANGED tor
    /\ UNCHANGED hashing
    /\ UNCHANGED upsert
    /\ UNCHANGED << checkpoint_file, db, restaurant_history, saved >>

\* main.py:336-353, one iteration of the scan loop
UpdateScanPage ==
    /\ pc = "uscan"
    /\ LoopContinues(page_num, consecutive_empty)
    /\ \E html \in LISTING_HTML, parsed \in ListingResults :
       LET restaurants == scrape_listing_page(html, parsed)
       IN
         /\ consecutive_empty' = NextEmpty(consecutive_empty, restaurants)
         /\ collected_urls' = Merge(collected_urls, restaurants)
         /\ hist' = [hist EXCEPT !.listed = @ \cup Range(restaurants)]
         /\ scanned' = ScannedStep(page_num, collected_urls, restaurants, html)
    /\ page_num' = page_num + 1
    /\ UNCHANGED fetcher
    /\ UNCHANGED tor
    /\ UNCHANGED hashing
    /\ UNCHANGED upsert
    /\ UNCHANGED since_delay
    /\ UNCHANGED << resume, pc, checkpoint_file, db, restaurant_history, checkpoint, pass_phase, processed_urls,
                    start_page, remaining, i, total_stats, existing_hashes, events,
                    saved, failed_before >>

\* main.py:355-362, leaving the scan loop
UpdateScanExit ==
    /\ pc = "uscan"
    /\ ~LoopContinues(page_num, consecutive_empty)
    /\ pc' = "ufetch"
    /\ UNCHANGED fetcher
    /\ UNCHANGED tor
    /\ UNCHANGED hashing
    /\ UNCHANGED upsert
    /\ UNCHANGED since_delay
    /\ UNCHANGED << checkpoint_file, db, restaurant_history, locals, events, scanned, hist, saved,
                    failed_before >>

\* main.py:364-399, one item of the fetch loop
UpdateFetchItem ==
    /\ pc = "ufetch"
    /\ i < Len(collected_urls)
    /\ LET url == collected_urls[i + 1]
           michelin_id == _extract_michelin_id(url)
       IN \E html \in HASHES \cup {None} :
            LET data   == parse_detail_page(html, url)
                failed == html = None \/ DOMAIN data = {}
                \* main.py:379
                skip   == /\ existing_hashes[michelin_id] # None
                          /\ existing_hashes[michelin_id] = data.content_hash
                action == IF failed THEN "failed"
                          ELSE IF skip THEN "unchanged"
                          ELSE UpsertAction(db, data)
            IN  /\ failed \/ skip \/ HistoryFits(db, data)
                /\ total_stats' = Count(total_stats, action)
                /\ db' = IF failed \/ skip THEN db ELSE UpsertTable(db, data)
                /\ restaurant_history' =
                      IF failed \/ skip THEN restaurant_history
                      ELSE UpsertHistory(restaurant_history, db, data)
                /\ events' = Append(events,
                       [url |-> url, html |-> html, prior |-> db[michelin_id]])
                \* main.py:394-399, asyncio.sleep(batch_delay)
                /\ since_delay' = IF ~failed /\ ~skip /\ BatchDue(i + 1)
                                  THEN 0 ELSE since_delay + 1
    /\ i' = i + 1
    /\ UNCHANGED fetcher
    /\ UNCHANGED tor
    /\ UNCHANGED hashing
    /\ UNCHANGED upsert
    /\ UNCHANGED << resume, pc, checkpoint_file, checkpoint, pass_phase, collected_urls,
                    processed_urls, start_page, page_num, consecutive_empty,
                    remaining, existing_hashes, scanned, hist, saved,
                    failed_before >>

\* main.py:401-409
UpdateFinish ==
    /\ pc = "ufetch"
    /\ i = Len(collected_urls)
    /\ pc' = "udone"
    /\ UNCHANGED fetcher
    /\ UNCHANGED tor
    /\ UNCHANGED hashing
    /\ UNCHANGED upsert
    /\ UNCHANGED since_delay
    /\ UNCHANGED << checkpoint_file, db, restaurant_history, locals, events, scanned, hist, saved,
                    failed_before >>

\* The process is killed; only checkpoint.json and the database survive.
Crash ==
    /\ pc \in {"scan", "fetch", "batch", "uscan", "ufetch"}
    /\ pc' = "crashed"
    /\ failed_before' = IF pc \in {"fetch", "batch"} THEN FailedIn(events) ELSE {}
    /\ resume' = FALSE
    /\ checkpoint' = EmptyDict
    /\ pass_phase' = "scan"
    /\ collected_urls' = <<>>
    /\ processed_urls' = {}
    /\ start_page' = 1
    /\ page_num' = 1
    /\ consecutive_empty' = 0
    /\ remaining' = <<>>
    /\ i' = 0
    /\ total_stats' = ZeroStats
    /\ existing_hashes' = EmptyTable
    /\ events' = <<>>
    /\ since_delay' = 0
    /\ scanned' = ScannedInit
    /\ hist' = HistInit
    /\ UNCHANGED fetcher
    /\ UNCHANGED tor
    /\ UNCHANGED hashing
    /\ UNCHANGED upsert
    /\ UNCHANGED << checkpoint_file, db, restaurant_history, saved >>

(***************************************************************************)
(* What save_checkpoint and json.load do when they fail.                   *)
(***************************************************************************)
\* main.py:68-71 raises (at 221, 243 or 289).  The file is as it was when
\* open failed, and cut short when the write did.
SaveCheckpointFails ==
    /\ pc \in {"scan", "batch"}
    /\ pc' = AfterSaveError(pc)
    /\ \E left \in {checkpoint_file, Torn} :
         /\ checkpoint_file' = left
         /\ saved' = IF left = Torn THEN HistInit ELSE saved
    /\ hist' = [HistInit EXCEPT !.save_failed = TRUE]
    /\ resume' = FALSE
    /\ checkpoint' = EmptyDict
    /\ pass_phase' = "scan"
    /\ collected_urls' = <<>>
    /\ processed_urls' = {}
    /\ start_page' = 1
    /\ page_num' = 1
    /\ consecutive_empty' = 0
    /\ remaining' = <<>>
    /\ i' = 0
    /\ total_stats' = ZeroStats
    /\ existing_hashes' = EmptyTable
    /\ events' = <<>>
    /\ since_delay' = 0
    /\ scanned' = ScannedInit
    /\ failed_before' = {}
    /\ UNCHANGED fetcher
    /\ UNCHANGED tor
    /\ UNCHANGED hashing
    /\ UNCHANGED upsert
    /\ UNCHANGED << db, restaurant_history >>

\* main.py:173 with resume = True and a file json.load (main.py:64) cannot
\* read: the exception ends the run before anything else happens.
StartUnreadableCheckpoint ==
    /\ pc \in {"idle", "done", "udone", "crashed", "aborted"}
    /\ checkpoint_file = Torn
    /\ pc' = "crashed"
    /\ hist' = HistInit
    /\ failed_before' = {}
    /\ UNCHANGED fetcher
    /\ UNCHANGED tor
    /\ UNCHANGED hashing
    /\ UNCHANGED upsert
    /\ UNCHANGED since_delay
    /\ UNCHANGED << checkpoint_file, db, restaurant_history, locals, events, scanned, saved >>

(***************************************************************************)
(* fetch_with_retry (main.py:24-57).                                       *)
(***************************************************************************)
\* Everything but the variables of fetch_with_retry.
crawl == << pc, checkpoint_file, db, restaurant_history, locals, events, scanned, hist, saved,
            failed_before, since_delay >>

\* The pages with a denial marker, by the marker they hold (main.py:37).
MARKERS == { "Access Denied", "403 Forbidden" }

\* Faulty variant of Denied: the page is not searched for markers.
DeniedNever(page) == FALSE

\* main.py:37, '"Access Denied" in html or "403 Forbidden" in html'
Denied(page) == page \in MARKERS

\* The record tries keeps of one call of browser.fetch.
\*   outcome : what the call did (OUTCOMES)
\*   rotated : the pool gave another proxy and the retry was immediate
\*   slept   : the seconds asyncio.sleep was called with after it (0: no sleep)
Try(outcome, rotated, slept) ==
    [outcome |-> outcome, rotated |-> rotated, slept |-> slept]

\* main.py:24-33, a call.  first is what proxy_pool.get_proxy() returns.
\* range(0) is empty: the function then falls off its end and returns None.
FetchCall ==
    /\ f_pc \in {"idle", "returned"}
    /\ \E pool \in BOOLEAN, first \in PROXIES \cup {None} :
         /\ proxy_pool' = pool
         /\ proxy' = IF pool THEN first ELSE None
    /\ attempt' = 0
    /\ tries' = <<>>
    /\ result' = None
    /\ f_pc' = IF 0 < max_attempts THEN "try" ELSE "returned"
    /\ UNCHANGED << max_attempts, base_delay >>
    /\ UNCHANGED crawl
    /\ UNCHANGED tor
    /\ UNCHANGED hashing
    /\ UNCHANGED upsert

\* main.py:33-57, one iteration of the loop.  html is the page browser.fetch
\* returns when it returns one, next what get_proxy() returns at line 45.
Attempt ==
    /\ f_pc = "try"
    /\ \E outcome \in OUTCOMES, html \in HASHES, marker \in MARKERS,
          next \in PROXIES \cup {None} :
         LET \* what browser.fetch returns when it returns
             page    == IF outcome = "block" THEN marker ELSE html
             \* main.py:42
             rotate  == proxy_pool /\ proxy # None
             \* main.py:46-48
             again   == rotate /\ next # None
             more    == HasNext(attempt, max_attempts)
             \* main.py:52-54
             slept   == IF ~again /\ more THEN Delay(attempt, base_delay) ELSE 0
         IN  IF outcome # "error" /\ ~Denied(page)
             THEN /\ tries' = Append(tries, Try(outcome, FALSE, 0))
                  /\ result' = page
                  /\ f_pc' = "returned"
                  /\ UNCHANGED << proxy, attempt >>
             ELSE /\ tries' = Append(tries, Try(outcome, again, slept))
                  /\ proxy' = IF rotate THEN next ELSE proxy
                  /\ result' = None
                  /\ f_pc' = IF more THEN "try" ELSE "returned"
                  /\ attempt' = IF more THEN attempt + 1 ELSE attempt
    /\ UNCHANGED << max_attempts, base_delay, proxy_pool >>
    /\ UNCHANGED crawl
    /\ UNCHANGED tor
    /\ UNCHANGED hashing
    /\ UNCHANGED upsert

(***************************************************************************)
(* ProxyPool (proxy_pool.py:16-78).                                        *)
(***************************************************************************)
\* Everything but the variables of ProxyPool.
rest == << crawl, fetcher, hashing, upsert >>

\* proxy_pool.py:41-43
get_socks_proxy == << "socks5", tor_endpoint[1], tor_endpoint[2] >>

\* Faulty variant of ShouldRotate: no test for zero.
ShouldRotateAtZero(query_count, n) == query_count % n = 0

\* proxy_pool.py:50
ShouldRotate(query_count, n) == query_count > 0 /\ query_count % n = 0

\* Faulty variant of Wait: no cooldown.
WaitNothing(elapsed) == 0

\* proxy_pool.py:66-70, the seconds _rotate sleeps
Wait(elapsed) == IF elapsed < MIN_ROTATION_WAIT THEN MIN_ROTATION_WAIT - elapsed ELSE 0

\* Faulty variant of LastRotationAfter: the time is recorded whatever happened.
LastRotationAlways(ok, old, t) == t

\* proxy_pool.py:71-78: line 75 is reached only when the signal was sent
LastRotationAfter(ok, old, t) == IF ok THEN t ELSE old

\* proxy_pool.py:64-78.  ok: the control port answered and the signal went
\* out; otherwise the exception is logged (line 77-78).  lag is the time the
\* exchange with the control port takes.
_rotate(op, q, returned) ==
    \E ok \in BOOLEAN, lag \in 0..1 :
        LET wait    == Wait(now - _last_rotation)
            sent_at == now + wait
        IN  /\ sent_at + lag <= MaxTime
            /\ now' = sent_at + lag
            /\ newnym' = IF ok THEN Append(newnym, sent_at) ELSE newnym
            /\ _last_rotation' = LastRotationAfter(ok, _last_rotation, now')
            /\ last_call' = Call(op, q, TRUE, wait, ok, _last_rotation, returned)

\* proxy_pool.py:45-53
rotate_if_needed ==
    /\ \E query_count \in 0..MaxQueryCount :
         IF ShouldRotate(query_count, rotation_count)
         THEN _rotate("rotate_if_needed", query_count, "True")
         ELSE /\ last_call' = Call("rotate_if_needed", query_count, FALSE, 0, FALSE,
                                   _last_rotation, "False")
              /\ UNCHANGED << now, _last_rotation, newnym >>
    /\ UNCHANGED << rotation_count, tor_endpoint >>
    /\ UNCHANGED rest

\* proxy_pool.py:55-57
force_rotate ==
    /\ _rotate("force_rotate", 0, "None")
    /\ UNCHANGED << rotation_count, tor_endpoint >>
    /\ UNCHANGED rest

\* Time passes between two calls.
Tick ==
    /\ now < MaxTime
    /\ now' = now + 1
    /\ UNCHANGED << _last_rotation, rotation_count, tor_endpoint, newnym, last_call >>
    /\ UNCHANGED rest

\* run_full_scrape, killed and started again at will.
Next ==
    \/ \E flag \in BOOLEAN : Start(flag)
    \/ StartUnreadableCheckpoint
    \/ SaveCheckpointFails
    \/ StartWithProxies
    \/ ScanPage
    \/ ScanExit
    \/ FetchItem
    \/ BatchCheckpoint
    \/ Finish
    \/ Crash

Spec == Init /\ [][Next]_vars

\* run_update_scrape, killed and started again at will.
NextUpdate ==
    \/ UpdateStart
    \/ UpdateScanPage
    \/ UpdateScanExit
    \/ UpdateFetchItem
    \/ UpdateFinish
    \/ Crash

SpecUpdate == Init /\ [][NextUpdate]_vars

\* The scan loops of both, up to the first detail fetch.
NextScan ==
    \/ \E flag \in BOOLEAN : Start(flag)
    \/ ScanPage
    \/ ScanExit
    \/ UpdateStart
    \/ UpdateScanPage
    \/ UpdateScanExit
    \/ Crash

SpecScan == Init /\ [][NextScan]_vars

\* Calls of fetch_with_retry under each configuration of retry.
InitFetch ==
    /\ InitCrawl
    /\ f_pc = "idle"
    /\ max_attempts \in 0..MaxAttempts
    /\ base_delay \in BASE_DELAYS
    /\ proxy_pool = FALSE
    /\ proxy = None
    /\ attempt = 0
    /\ tries = <<>>
    /\ result = None
    /\ PoolBuilt
    /\ HashIdle
    /\ UpsertIdle
    /\ rotation_count = 9

NextFetch ==
    \/ FetchCall
    \/ Attempt

SpecFetch == InitFetch /\ [][NextFetch]_vars

\* Calls on one ProxyPool under each rotation_count.
InitPool ==
    /\ InitCrawl
    /\ FetcherIdle
    /\ PoolBuilt
    /\ HashIdle
    /\ UpsertIdle
    /\ rotation_count \in 1..MaxRotationCount

NextPool ==
    \/ rotate_if_needed
    \/ force_rotate
    \/ Tick

SpecPool == InitPool /\ [][NextPool]_vars

(***************************************************************************)
(* The content hash on its own: two dicts, and the hash of each.           *)
(***************************************************************************)
InitHash ==
    /\ InitCrawl
    /\ FetcherIdle
    /\ PoolBuilt
    /\ rotation_count = 9
    /\ records \in Dicts \X Dicts
    /\ content_hashes = << NoHash, NoHash >>
    /\ UpsertIdle

\* parser.py:164-165 on the k-th dict
ComputeHash(k) ==
    /\ content_hashes[k] = NoHash
    /\ content_hashes' = [content_hashes EXCEPT ![k] = content_hash_of(records[k])]
    /\ UNCHANGED records
    /\ UNCHANGED << crawl, fetcher, tor, upsert >>

NextHash == \E k \in 1..2 : ComputeHash(k)

SpecHash == InitHash /\ [][NextHash]_vars

(***************************************************************************)
(* run_full_scrape when every call it makes returns: no process is killed  *)
(* and no checkpoint write fails.  The run is one sequential coroutine, so *)
(* each of its steps is taken once it can be.                              *)
(***************************************************************************)
NextRun ==
    \/ \E flag \in BOOLEAN : Start(flag)
    \/ ScanPage
    \/ ScanExit
    \/ FetchItem
    \/ BatchCheckpoint
    \/ Finish

SpecRun ==
    /\ Init
    /\ [][NextRun]_vars
    /\ WF_vars(ScanPage)
    /\ WF_vars(ScanExit)
    /\ WF_vars(FetchItem)
    /\ WF_vars(BatchCheckpoint)
    /\ WF_vars(Finish)

(***************************************************************************)
(* upsert_restaurant statement by statement (database.py:68-115), called   *)
(* on its own on a store that starts empty.  db and restaurant_history are *)
(* what is committed; uncommitted is what the connection sees.             *)
(***************************************************************************)
\* Everything but the store and the variables of the call.
but_store == << pc, checkpoint_file, locals, events, scanned, hist, saved,
                failed_before, since_delay, fetcher, tor, hashing >>

\* The records a call may pass.
Records == [michelin_id : SLUGS, content_hash : HASHES]

\* Faulty variant of HistoryOnDisk: _save_history commits its row.
HistoryOnDiskAtOnce(committed, seen) == seen

\* database.py:107-115: _save_history executes its INSERT and does not
\* commit, so the committed restaurant_history is as before.
HistoryOnDisk(committed, seen) == committed

\* database.py:72-74 and 88-90: the call reads the stored record; when the
\* content_hash is the same it returns "unchanged" at once.
UpsertCall ==
    /\ upsert_pc = "idle"
    /\ Len(returned_actions) < MaxCalls
    /\ \E data \in Records :
         LET stored == uncommitted.restaurants[data.michelin_id]
             action == UpsertAction(uncommitted.restaurants, data)
         IN  /\ upsert_data' = data
             /\ existing' = stored
             /\ upsert_pc' = CASE action = "added" -> "insert"
                                [] action = "unchanged" -> "idle"
                                [] OTHER -> "save_history"
             /\ returned_actions' =
                   IF action = "unchanged"
                   THEN Append(returned_actions,
                               [michelin_id |-> data.michelin_id, action |-> action])
                   ELSE returned_actions
    /\ UNCHANGED << db, restaurant_history, uncommitted >>
    /\ UNCHANGED but_store

\* database.py:76-84, the INSERT of a new restaurant
UpsertInsert ==
    /\ upsert_pc = "insert"
    /\ uncommitted' = [uncommitted EXCEPT
                         !.restaurants[upsert_data.michelin_id] = upsert_data.content_hash]
    /\ upsert_pc' = "commit"
    /\ UNCHANGED << db, restaurant_history, upsert_data, existing, returned_actions >>
    /\ UNCHANGED but_store

\* database.py:93, _save_history(existing["id"], existing)
UpsertSaveHistory ==
    /\ upsert_pc = "save_history"
    /\ uncommitted' = [uncommitted EXCEPT
                         !.restaurant_history =
                            Append(@, Snapshot(uncommitted.restaurants,
                                               upsert_data.michelin_id))]
    /\ restaurant_history' =
          HistoryOnDisk(restaurant_history, uncommitted'.restaurant_history)
    /\ upsert_pc' = "update"
    /\ UNCHANGED << db, upsert_data, existing, returned_actions >>
    /\ UNCHANGED but_store

\* database.py:96-103, the UPDATE
UpsertUpdate ==
    /\ upsert_pc = "update"
    /\ uncommitted' = [uncommitted EXCEPT
                         !.restaurants[upsert_data.michelin_id] = upsert_data.content_hash]
    /\ upsert_pc' = "commit"
    /\ UNCHANGED << db, restaurant_history, upsert_data, existing, returned_actions >>
    /\ UNCHANGED but_store

\* database.py:85-86 and 104-105, self.conn.commit() and the return
UpsertCommit ==
    /\ upsert_pc = "commit"
    /\ db' = uncommitted.restaurants
    /\ restaurant_history' = uncommitted.restaurant_history
    /\ returned_actions' =
          Append(returned_actions,
                 [michelin_id |-> upsert_data.michelin_id,
                  action |-> IF existing = None THEN "added" ELSE "modified"])
    /\ upsert_pc' = "idle"
    /\ UNCHANGED << upsert_data, existing, uncommitted >>
    /\ UNCHANGED but_store

\* The process dies, or a statement raises, in the middle of a call: the
\* connection is closed without a commit and what was not committed is lost.
UpsertKilled ==
    /\ upsert_pc \in {"insert", "save_history", "update", "commit"}
    /\ uncommitted' = [restaurants |-> db, restaurant_history |-> restaurant_history]
    /\ upsert_pc' = "idle"
    /\ UNCHANGED << db, restaurant_history, upsert_data, existing, returned_actions >>
    /\ UNCHANGED but_store

NextDb ==
    \/ UpsertCall
    \/ UpsertInsert
    \/ UpsertSaveHistory
    \/ UpsertUpdate
    \/ UpsertCommit
    \/ UpsertKilled

SpecDb == Init /\ [][NextDb]_vars

(***************************************************************************)
(* Properties.                                                             *)
(***************************************************************************)
InFetchPhase == pc \in {"fetch", "batch", "done"}

InScanLoop == pc \in {"scan", "uscan"}

\* The URLs whose detail page this run has fetched, in the order of the fetches.
Fetched == [k \in 1..Len(events) |-> events[k].url]

\* What the run had to do when it started: the URLs of collected_urls that
\* the checkpoint it loaded does not list as processed.
Todo ==
    LET done == Get(checkpoint, "processed_urls", {})
        keep == { k \in 1..Len(collected_urls) : collected_urls[k] \notin done }
    IN  [n \in 1..Cardinality(keep) |->
            collected_urls[CHOOSE k \in keep :
                              Cardinality({ j \in keep : j < k }) = n - 1]]

\* The counter an item belongs to, from what the collaborators returned for it
\* and what the table held before.
Outcome(e) ==
    IF e.html = None THEN "failed"
    ELSE IF e.prior = None THEN "added"
    ELSE IF e.prior = e.html THEN "unchanged"
    ELSE "modified"

Tally(key) == Cardinality({ k \in 1..Len(events) : Outcome(events[k]) = key })

StatsSum(stats) == stats.added + stats.modified + stats.unchanged + stats.failed

\* C1: a run resumed from a checkpoint in the scrape phase fetches no listing
\* page and fetches the URLs of collected_urls that the checkpoint does not
\* list as processed, in their order in collected_urls, each once, and by
\* completion all of them.
C1_ResumeFetchesComplement ==
    pass_phase = "scrape" =>
        /\ pc # "scan"
        /\ page_num = start_page
        /\ Len(Fetched) <= Len(Todo)
        /\ Fetched = SubSeq(Todo, 1, Len(Fetched))
        /\ NoDup(Fetched)
        /\ \A k \in 1..Len(Fetched) : Fetched[k] \notin checkpoint.processed_urls
        /\ pc = "done" => Fetched = Todo

C1_Witness ==
    /\ pass_phase = "scrape"
    /\ pc = "done"
    /\ checkpoint.processed_urls # {}
    /\ Len(events) >= 1

\* C2: a scan that was interrupted after a checkpoint write and resumed
\* ends with the collected_urls, and after the page, of the run that scans
\* the same pages without interruption.
C2_ResumeScanEquivalence ==
    (pc = "scan" /\ ~LoopContinues(page_num, consecutive_empty)) =>
        /\ collected_urls = hist.ref.collected_urls
        /\ page_num - 1 = hist.ref.last_page

\* C3: in the fetch phase at most batch_size of the URLs this run has
\* processed are missing from processed_urls of the checkpoint on disk.
C3_CrashCostBound ==
    pc \in {"fetch", "batch"} =>
        Cardinality(Range(Fetched) \ Get(load_checkpoint, "processed_urls", {}))
            <= batch_size

\* A step of the fetch loop whose item failed.
FailureStep ==
    /\ pc = "fetch"
    /\ i' = i + 1
    /\ events'[i'].html = None

\* What C4 says of such a step: failed grows by one, no other counter and
\* no stored record changes, the URL is marked processed and the loop goes on.
FailurePolicy ==
    /\ total_stats' = [total_stats EXCEPT !.failed = @ + 1]
    /\ db' = db
    /\ processed_urls' = processed_urls \cup {remaining[i + 1]}
    /\ remaining' = remaining
    /\ pc' = "fetch"

\* C4 as claimed: the failure policy, and a run that resumes after a kill
\* never takes up a URL the killed run had counted failed.
C4_FailedNeverFetchedAgain ==
    /\ [][FailureStep => FailurePolicy]_vars
    /\ [][(pc = "crashed" /\ pc' = "fetch")
            => failed_before \cap Range(remaining') = {}]_vars

\* C4 as amended: the failure policy, and a run resumed from a checkpoint
\* never fetches a URL that checkpoint lists as processed, failed ones included.
C4_FailurePolicy ==
    /\ [][FailureStep => FailurePolicy]_vars
    /\ [](pass_phase = "scrape" =>
            \A u \in checkpoint.processed_urls : u \notin Range(Fetched))

C4_Witness ==
    /\ pass_phase = "scrape"
    /\ pc = "done"
    /\ Len(events) >= 1
    /\ \E u \in checkpoint.processed_urls : hist.group[u] = "failed"

\* C5: in the fetch phase every URL of collected_urls is either processed
\* and upserted, processed and counted failed, or not processed and still
\* ahead in the work list; at completion none is left.
C5_NoUrlDropped ==
    InFetchPhase =>
        /\ \A u \in Range(collected_urls) :
             /\ u \in processed_urls <=> hist.group[u] \in {"ok", "failed"}
             /\ u \notin processed_urls <=> hist.group[u] = "pending"
        /\ Range(collected_urls) \ processed_urls
             = { remaining[k] : k \in (i + 1)..Len(remaining) }
        /\ pc = "done" => Range(collected_urls) \subseteq processed_urls

C5_Witness ==
    /\ pc = "done"
    /\ Len(collected_urls) = 3
    /\ \E u, v \in Range(collected_urls) :
         hist.group[u] = "ok" /\ hist.group[v] = "failed"

\* C6: the four counters add up to the number of items handled so far, each
\* item adds one to exactly one of them, and at completion the sum is the
\* number of URLs the run had to do.
C6_ConsistentAccounting ==
    /\ [](InFetchPhase =>
            /\ StatsSum(total_stats) = Len(events)
            /\ Len(events) = i
            /\ pc = "done" => StatsSum(total_stats) = Len(Todo))
    /\ [][(pc = "fetch" /\ i' = i + 1) =>
            \E key \in DOMAIN total_stats :
                total_stats' = [total_stats EXCEPT ![key] = @ + 1]]_vars

C6_Witness ==
    /\ pc = "done"
    /\ total_stats.failed >= 1
    /\ total_stats.added >= 1
    /\ StatsSum(total_stats) = 3

\* The example of C7: three items; the first is new, the second failed,
\* the third came with the hash the table already held.
EndToEndExample ==
    /\ pc = "done"
    /\ Len(events) = 3
    /\ events[1].html # None /\ events[1].prior = None
    /\ events[2].html = None
    /\ events[3].html # None /\ events[3].prior = events[3].html

\* C7: every item counts for the counter of its outcome; a completed run has
\* no checkpoint and every URL it handled, failed ones included, in
\* processed_urls; the example run returns added 1, modified 0, unchanged 1,
\* failed 1.
C7_EndToEnd ==
    /\ InFetchPhase => \A key \in DOMAIN total_stats : total_stats[key] = Tally(key)
    /\ pc = "done" =>
         /\ checkpoint_file = NoFile
         /\ Range(Fetched) \subseteq processed_urls
    /\ EndToEndExample =>
         total_stats = [added |-> 1, modified |-> 0, unchanged |-> 1, failed |-> 1]

C7_Witness ==
    /\ EndToEndExample
    /\ _extract_michelin_id(events[1].url) # _extract_michelin_id(events[3].url)
    /\ collected_urls = Fetched
    /\ checkpoint_file = NoFile
    /\ events[2].url \in processed_urls

\* C8: the checkpoint file is deleted only by the step that completes the
\* run, when no URL of collected_urls is unprocessed; it exists throughout
\* the fetch phase and not after completion.
C8_CheckpointDeletedAtDone ==
    /\ [][(checkpoint_file # NoFile /\ checkpoint_file' = NoFile) =>
            /\ pc = "fetch" /\ pc' = "done"
            /\ i = Len(remaining)
            /\ Range(collected_urls) \subseteq processed_urls]_vars
    /\ [](pc \in {"fetch", "batch"} => checkpoint_file # NoFile)
    /\ [](pc = "done" => checkpoint_file = NoFile)

C8_Witness ==
    /\ pc = "done"
    /\ checkpoint_file = NoFile
    /\ Len(remaining) >= 2

\* The empty pages the running loop has seen in a row, from its history.
EmptyTail == page_num - 1 - scanned.last_nonempty

StopCondition == page_num > MAX_PAGES \/ EmptyTail >= EMPTY_PAGE_THRESHOLD

\* C9: a scan loop (of either function) takes another page only while the
\* page number is within MAX_PAGES and fewer than EMPTY_PAGE_THRESHOLD empty
\* pages came in a row, and leaves only when one of the two fails; a page
\* that lists something resets the count.  A loop that found pages 4, 5, 6
\* empty after a page 3 that was not takes no page 7, and holds every URL
\* the pages listed.
C9_ScanTermination ==
    /\ [][(InScanLoop /\ page_num' = page_num + 1) => ~StopCondition]_vars
    /\ [][((pc = "scan" /\ pc' = "fetch") \/ (pc = "uscan" /\ pc' = "ufetch"))
            => StopCondition]_vars
    /\ [][(InScanLoop /\ page_num' = page_num + 1
             /\ scanned'.last_nonempty = page_num) => consecutive_empty' = 0]_vars
    /\ [][(InScanLoop /\ start_page <= 4 /\ scanned.last_nonempty = 3
             /\ page_num = 7) => page_num' # 8]_vars
    /\ [](InScanLoop => hist.listed \subseteq Range(collected_urls))

C9_Witness ==
    /\ pc = "scan"
    /\ start_page = 1
    /\ page_num = 7
    /\ scanned.last_nonempty = 3
    /\ Len(collected_urls) >= 2

\* C10 as claimed: the latest page was counted empty exactly when it added
\* no URL to collected_urls.
C10_EmptyIffNothingNew ==
    (InScanLoop /\ page_num > start_page) =>
        (consecutive_empty >= 1 <=> Len(collected_urls) = scanned.prev_len)

\* C10 as amended: a page is counted empty exactly when its listing is empty
\* (no link extracted, or the fetch exhausted); consecutive_empty is the
\* number of such pages in a row, and a page that lists only known URLs
\* resets it.
C10_EmptyIffNothingListed ==
    InScanLoop => consecutive_empty = EmptyTail

C10_Witness ==
    /\ InScanLoop
    /\ page_num > start_page
    /\ scanned.last_nonempty = page_num - 1
    /\ Len(collected_urls) = scanned.prev_len
    /\ consecutive_empty = 0

\* The file holds a checkpoint save_checkpoint wrote in full.
IsCheckpoint(f) == f \notin {NoFile, Torn}

IsPrefix(a, b) == Len(a) <= Len(b) /\ a = SubSeq(b, 1, Len(a))

\* C11: every iteration of the scan loop of run_full_scrape leaves, before the
\* next page is fetched, a checkpoint in the scan phase whose last page is the
\* page just handled and whose collected_urls holds every URL the pages of
\* the crawl have listed so far.
C11_CheckpointEveryPage ==
    /\ [][(pc = "scan" /\ page_num' = page_num + 1) =>
            /\ IsCheckpoint(checkpoint_file')
            /\ checkpoint_file'.pass_phase = "scan"
            /\ checkpoint_file'.last_page = page_num
            /\ hist'.listed \subseteq Range(checkpoint_file'.collected_urls)]_vars
    /\ []((pc = "scan" /\ page_num > start_page) =>
            /\ IsCheckpoint(checkpoint_file)
            /\ checkpoint_file.pass_phase = "scan"
            /\ checkpoint_file.last_page = page_num - 1
            /\ hist.listed \subseteq Range(checkpoint_file.collected_urls))

C11_Witness ==
    /\ pc = "scan"
    /\ page_num >= 3
    /\ IsCheckpoint(checkpoint_file)
    /\ checkpoint_file.last_page = page_num - 1
    /\ Cardinality(hist.listed) >= 2

\* C12: the step that ends the scan writes a checkpoint in the scrape phase
\* with the whole of collected_urls, before any detail page is fetched, and
\* the file stays in the scrape phase for the rest of the run.
C12_PhaseTransitionPersisted ==
    /\ [][(pc = "scan" /\ pc' = "fetch") =>
            /\ IsCheckpoint(checkpoint_file')
            /\ checkpoint_file'.pass_phase = "scrape"
            /\ checkpoint_file'.collected_urls = collected_urls
            /\ hist.listed \subseteq Range(checkpoint_file'.collected_urls)
            /\ events' = <<>>]_vars
    /\ [](pc \in {"fetch", "batch"} =>
            /\ IsCheckpoint(checkpoint_file)
            /\ checkpoint_file.pass_phase = "scrape"
            /\ checkpoint_file.collected_urls = collected_urls)

C12_Witness ==
    /\ pc = "fetch"
    /\ pass_phase = "scan"
    /\ events = <<>>
    /\ Len(collected_urls) >= 2
    /\ checkpoint_file.pass_phase = "scrape"

\* C13: a run that loaded a scan-phase checkpoint with last page L starts
\* at page L + 1, never takes a page numbered L or lower, and keeps the
\* collected_urls of the checkpoint as a prefix of its own.
C13_NoRescanOnResume ==
    /\ []((pc = "scan" /\ "last_page" \in DOMAIN checkpoint) =>
            /\ start_page = checkpoint.last_page + 1
            /\ page_num >= start_page
            /\ IsPrefix(checkpoint.collected_urls, collected_urls))
    /\ [][(pc # "scan" /\ pc' = "scan") => page_num' = start_page']_vars
    /\ [][(pc = "scan" /\ page_num' = page_num + 1 /\ "last_page" \in DOMAIN checkpoint)
            => page_num > checkpoint.last_page]_vars

C13_Witness ==
    /\ pc = "scan"
    /\ "last_page" \in DOMAIN checkpoint
    /\ checkpoint.last_page >= 2
    /\ page_num > start_page
    /\ Len(checkpoint.collected_urls) >= 1
    /\ Len(collected_urls) > Len(checkpoint.collected_urls)

\* C14: no URL occurs twice in collected_urls, in memory or in a checkpoint,
\* and a step of a run only appends to it URLs it did not hold.
C14_CollectedAppendOnly ==
    /\ [](NoDup(collected_urls))
    /\ [](IsCheckpoint(checkpoint_file) => NoDup(checkpoint_file.collected_urls))
    /\ [][(pc \in {"scan", "fetch", "batch"} /\ pc' \in {"scan", "fetch", "batch", "done"}) =>
            /\ IsPrefix(collected_urls, collected_urls')
            /\ \A k \in (Len(collected_urls) + 1)..Len(collected_urls') :
                 collected_urls'[k] \notin Range(collected_urls)]_vars

C14_Witness ==
    /\ pc = "scan"
    /\ resume
    /\ "last_page" \in DOMAIN checkpoint
    /\ Len(checkpoint.collected_urls) >= 1
    /\ Len(collected_urls) >= 2
    /\ page_num > start_page
    /\ scanned.last_nonempty = page_num - 1
    /\ scanned.prev_len = Len(collected_urls)

\* C15: processed_urls is a subset of collected_urls, in memory and in every
\* checkpoint on disk.
C15_ProcessedSubsetCollected ==
    /\ processed_urls \subseteq Range(collected_urls)
    /\ IsCheckpoint(checkpoint_file) =>
         checkpoint_file.processed_urls \subseteq Range(checkpoint_file.collected_urls)

C15_Witness ==
    /\ pc = "fetch"
    /\ IsCheckpoint(checkpoint_file)
    /\ checkpoint_file.processed_urls # {}
    /\ Cardinality(processed_urls) >= 2
    /\ Len(collected_urls) = 3

\* C16: a URL is in processed_urls of the checkpoint on disk only if, when
\* the checkpoint was written, it had been counted failed or upserted (and
\* the table holds its record); a scan checkpoint with last page N was
\* written when N pages had been handled and their URLs merged.  This holds
\* in every state, those a kill leaves included.
C16_WriteAfterEffect ==
    IsCheckpoint(checkpoint_file) =>
        /\ \A u \in checkpoint_file.processed_urls :
             \/ saved.group[u] = "failed"
             \/ saved.group[u] = "ok" /\ db[_extract_michelin_id(u)] # None
        /\ checkpoint_file.pass_phase = "scan" =>
             /\ checkpoint_file.last_page = saved.pages
             /\ saved.listed \subseteq Range(checkpoint_file.collected_urls)

C16_Witness ==
    /\ pc = "crashed"
    /\ IsCheckpoint(checkpoint_file)
    /\ checkpoint_file.pass_phase = "scrape"
    /\ \E u, v \in checkpoint_file.processed_urls :
         saved.group[u] = "ok" /\ saved.group[v] = "failed"

\* C17: when save_checkpoint raises, the run ends there: it is not
\* completed, the table is as it was, no file that existed is removed, and
\* nothing happens after it but a new start.
C17_CheckpointFailureFatal ==
    /\ [](hist.save_failed => pc = "aborted")
    /\ [][(~hist.save_failed /\ hist'.save_failed) =>
            /\ pc \in {"scan", "batch"}
            /\ db' = db
            /\ checkpoint_file # NoFile => checkpoint_file' # NoFile]_vars
    /\ [][pc = "aborted" =>
            /\ pc' \in {"scan", "fetch", "crashed"}
            /\ events' = <<>>
            /\ total_stats' = ZeroStats
            /\ checkpoint_file' = checkpoint_file]_vars

C17_Witness ==
    /\ pc = "aborted"
    /\ hist.save_failed
    /\ IsCheckpoint(checkpoint_file)
    /\ checkpoint_file.pass_phase = "scrape"
    /\ checkpoint_file.processed_urls # {}

\* C18: a run started when no checkpoint file exists, or with resume
\* disabled whatever the file holds, starts in the scan phase at page 1 with
\* empty collected_urls and processed_urls and with nothing loaded.
C18_FreshOrResetStart ==
    /\ [][(pc \notin {"scan", "fetch", "batch"} /\ pc' \in {"scan", "fetch"}
             /\ (checkpoint_file = NoFile \/ ~resume')) =>
            /\ pc' = "scan"
            /\ pass_phase' = "scan"
            /\ start_page' = 1
            /\ page_num' = 1
            /\ collected_urls' = <<>>
            /\ processed_urls' = {}
            /\ checkpoint' = EmptyDict
            /\ consecutive_empty' = 0
            /\ hist' = HistInit]_vars
    /\ []((pc \in {"scan", "fetch", "batch", "done"} /\ ~resume) =>
            /\ checkpoint = EmptyDict
            /\ pass_phase = "scan"
            /\ start_page = 1)

C18_Witness ==
    /\ pc = "scan"
    /\ ~resume
    /\ IsCheckpoint(checkpoint_file)
    /\ checkpoint_file.pass_phase = "scrape"
    /\ checkpoint_file.processed_urls # {}
    /\ page_num = 1
    /\ collected_urls = <<>>

\* The seconds a call of fetch_with_retry has slept.
RECURSIVE TotalSlept(_)
TotalSlept(t) == IF t = <<>> THEN 0 ELSE Head(t).slept + TotalSlept(Tail(t))

\* C19: a call of fetch_with_retry calls browser.fetch at most max_attempts
\* times, every iteration uses up one attempt, and the call returns the
\* page of the attempt that succeeded or, after max_attempts failures, None.
C19_BoundedRetry ==
    /\ [](Len(tries) <= max_attempts)
    /\ [](f_pc = "try" => attempt = Len(tries) /\ attempt < max_attempts)
    /\ [](f_pc = "returned" =>
            /\ result # None <=> (tries # <<>> /\ tries[Len(tries)].outcome = "ok")
            /\ result = None => Len(tries) = max_attempts)
    /\ [][f_pc = "try" => Len(tries') = Len(tries) + 1]_vars

C19_Witness ==
    /\ f_pc = "returned"
    /\ result = None
    /\ max_attempts = 3
    /\ proxy_pool
    /\ Len(tries) = 3
    /\ tries[1].rotated
    /\ tries[2].outcome = "block"
    /\ tries[3].outcome = "error"

\* The backoff fetch_with_retry owes after its k-th call of browser.fetch.
Backoff(k) == IF k < max_attempts THEN base_delay * 2 ^ (k - 1) ELSE 0

C21_BlockSignalRotates ==
    /\ Len(tries) <= max_attempts
    /\ \A k \in 1..Len(tries) :
         (tries[k].outcome = "block" /\ k < max_attempts) =>
             tries[k].rotated /\ tries[k].slept = 0

\* The calls of a pool method are told apart from the steps of the clock by
\* what they leave in last_call.
Rotated == Len(newnym') = Len(newnym) + 1

\* C22: successive NEWNYM signals are at least MIN_ROTATION_WAIT apart; a
\* rotation asked for less than MIN_ROTATION_WAIT after _last_rotation
\* sleeps the rest of it first, and the signal goes out after that sleep.
C22_RotationCooldown ==
    /\ [](\A k \in 2..Len(newnym) : newnym[k] - newnym[k - 1] >= MIN_ROTATION_WAIT)
    /\ [][Rotated =>
            /\ last_call'.asked
            /\ newnym'[Len(newnym')] = now + last_call'.waited
            /\ newnym'[Len(newnym')] >= _last_rotation + MIN_ROTATION_WAIT
            /\ (now - _last_rotation < MIN_ROTATION_WAIT
                  => last_call'.waited = MIN_ROTATION_WAIT - (now - _last_rotation))]_vars

C22_Witness ==
    /\ Len(newnym) >= 2
    /\ last_call.sent
    /\ last_call.waited > 0
    /\ last_call.waited < MIN_ROTATION_WAIT

\* C23: a rotation that could not reach the control port ends without an
\* exception and leaves _last_rotation and what get_socks_proxy returns as
\* they were; _last_rotation changes only in a call that sent the signal.
C23_FailOpenRotation ==
    /\ []((last_call.asked /\ ~last_call.sent) =>
            /\ ~last_call.raised
            /\ _last_rotation = last_call.before)
    /\ [][_last_rotation' # _last_rotation => (Rotated /\ last_call'.sent)]_vars
    /\ [][get_socks_proxy' = get_socks_proxy]_vars

C23_Witness ==
    /\ last_call.asked
    /\ ~last_call.sent
    /\ Len(newnym) >= 1
    /\ _last_rotation = last_call.before
    /\ now > _last_rotation

\* C24: rotate_if_needed asks for a rotation exactly when query_count > 0
\* and query_count is a multiple of rotation_count.
C24_RotationCadence ==
    last_call.op = "rotate_if_needed" =>
        (last_call.asked <=>
            /\ last_call.query_count >= 1
            /\ \E m \in 1..MaxQueryCount + 1 : last_call.query_count = m * rotation_count)

C24_Witness ==
    /\ last_call.op = "rotate_if_needed"
    /\ last_call.asked
    /\ rotation_count >= 2
    /\ last_call.query_count = 2 * rotation_count

\* C25: rotate_if_needed returns True exactly when the call sent the signal
\* (and so recorded _last_rotation).
C25_TrueIffRotated ==
    last_call.op = "rotate_if_needed" =>
        (last_call.returned = "True" <=> last_call.sent)

\* The step is an item of the detail loop of run_full_scrape for which
\* upsert_restaurant is called (the fetch and the parse gave something).
Upserting ==
    /\ pc = "fetch"
    /\ i' = i + 1
    /\ events'[Len(events')].html # None

\* The record the step passes on, and the counter the step raises.
Passed == parse_detail_page(events'[Len(events')].html, events'[Len(events')].url)

Rose(key) == total_stats'[key] = total_stats[key] + 1

\* C26: upsert_restaurant returns "added" exactly when no record with the
\* michelin_id is stored, "unchanged" exactly when one is stored with the
\* content_hash of the new record, and "modified" otherwise.
C26_Classification ==
    [][Upserting =>
         LET stored == db[Passed.michelin_id]
         IN  /\ Rose("added") <=> stored = None
             /\ Rose("unchanged") <=> stored = Passed.content_hash
             /\ Rose("modified") <=> (stored # None /\ stored # Passed.content_hash)
             /\ ~Rose("failed")]_vars

C26_Witness ==
    /\ pc = "fetch"
    /\ total_stats.added >= 1
    /\ total_stats.unchanged >= 1
    /\ total_stats.modified >= 1
    /\ total_stats.failed = 0

UpdateItem ==
    /\ pc = "ufetch"
    /\ i' = i + 1
    /\ events'[Len(events')].html # None

\* The item before this one made run_update_scrape call upsert_restaurant
\* with the fields this item has.
SameAsUpsertedBefore ==
    /\ Len(events) >= 1
    /\ events[Len(events)].html = Passed.content_hash
    /\ _extract_michelin_id(events[Len(events)].url) = Passed.michelin_id
    /\ existing_hashes[Passed.michelin_id] # Passed.content_hash

\* C28: an item counted "unchanged" writes neither table; an upsert with the
\* fields of the upsert before it is "unchanged" and writes nothing; in
\* run_update_scrape an item whose hash is the stored hash is counted
\* "unchanged" and writes nothing.
C28_IdempotentUpsert ==
    /\ [][UpdateItem /\ Rose("unchanged") =>
            /\ db' = db
            /\ restaurant_history' = restaurant_history]_vars
    /\ [][UpdateItem /\ SameAsUpsertedBefore =>
            /\ Rose("unchanged")
            /\ db' = db
            /\ restaurant_history' = restaurant_history]_vars
    /\ [][UpdateItem /\ db[Passed.michelin_id] = Passed.content_hash =>
            /\ Rose("unchanged")
            /\ db' = db
            /\ restaurant_history' = restaurant_history]_vars

C28_Witness ==
    /\ pc = "ufetch"
    /\ Len(events) >= 2
    /\ LET first  == events[Len(events) - 1]
           second == events[Len(events)]
       IN  /\ second.html # None
           /\ second.html = first.html
           /\ _extract_michelin_id(second.url) = _extract_michelin_id(first.url)
           /\ existing_hashes[_extract_michelin_id(second.url)] # second.html
           /\ first.prior # None
           /\ first.prior # first.html
           /\ second.prior = second.html
    /\ total_stats.modified >= 1
    /\ total_stats.unchanged >= 1
    /\ Len(restaurant_history) >= 1

\* The domain fields of a dict, whatever their order.
DomainFields(data) ==
    { data[j] : j \in { n \in 1..Len(data) : data[n][1] \notin TIMESTAMPS } }

\* C29: the content_hash depends on the domain fields only, not on their
\* order nor on the timestamps: two dicts with the same domain fields have
\* the same content_hash.
C29_FingerprintStable ==
    (content_hashes[1] # NoHash /\ content_hashes[2] # NoHash) =>
        (DomainFields(records[1]) = DomainFields(records[2])
            => content_hashes[1] = content_hashes[2])

C29_Witness ==
    /\ content_hashes[1] # NoHash
    /\ content_hashes[1] = content_hashes[2]
    /\ Len(records[1]) = 3
    /\ Len(records[2]) = 2
    /\ records[1][1][1] = "updated_at"
    /\ records[1][2] = records[2][2]
    /\ records[1][3] = records[2][1]

\* C30: in the detail loops no more than batch_size detail fetches are
\* issued without a suspension of batch_delay between them.
C30_BatchRateCap ==
    pc \in {"fetch", "batch", "ufetch"} => since_delay <= batch_size

\* The step replaces a checkpoint on disk by another of the same crawl: the
\* run was resumed from a checkpoint, or has written one itself before.
NextCheckpointOfCrawl ==
    /\ IsCheckpoint(checkpoint_file)
    /\ IsCheckpoint(checkpoint_file')
    /\ checkpoint_file' # checkpoint_file
    /\ \/ DOMAIN checkpoint # {}
       \/ pc \in {"fetch", "batch"}
       \/ page_num > start_page

\* C31: every checkpoint a crawl persists, in the scan phase, in the fetch
\* phase and after a resume, carries the started_at of the checkpoint the
\* crawl persisted before it.
C31_StableStartTime ==
    [][NextCheckpointOfCrawl =>
         checkpoint_file'.started_at = checkpoint_file.started_at]_vars

\* The run was resumed from a checkpoint of the fetch phase.
ResumedInFetchPhase ==
    /\ pc \in {"scan", "fetch", "batch", "done"}
    /\ DOMAIN checkpoint # {}
    /\ checkpoint.pass_phase = "scrape"

\* C32: a checkpoint that follows a checkpoint of the fetch phase in the
\* same crawl is of the fetch phase, and a run resumed from a checkpoint of
\* the fetch phase takes no listing page.
C32_PhaseMonotone ==
    /\ [][(NextCheckpointOfCrawl /\ checkpoint_file.pass_phase = "scrape")
            => checkpoint_file'.pass_phase = "scrape"]_vars
    /\ [](ResumedInFetchPhase =>
            /\ pc # "scan"
            /\ page_num = 1
            /\ scanned.last_nonempty = 0)

C32_Witness ==
    /\ ResumedInFetchPhase
    /\ pc = "fetch"
    /\ i >= batch_size
    /\ IsCheckpoint(checkpoint_file)
    /\ checkpoint_file.pass_phase = "scrape"
    /\ checkpoint_file.processed_urls # checkpoint.processed_urls
    /\ checkpoint_file.started_at = checkpoint.started_at

\* The step is an iteration of a scan loop whose listing fetch gave nothing.
FailedListing ==
    /\ pc \in {"scan", "uscan"}
    /\ page_num' = page_num + 1
    /\ ~scanned'.fetched

\* C33: a listing page whose fetch gave nothing counts as an empty page: no
\* URL is collected and consecutive_empty grows by one; run_full_scrape
\* records the page as the last page of the checkpoint, so that a resumed
\* run starts after it; and a scan loop whose count has reached
\* EMPTY_PAGE_THRESHOLD takes no further page.
C33_FailedListingIsEmpty ==
    /\ [][FailedListing =>
            /\ consecutive_empty' = consecutive_empty + 1
            /\ collected_urls' = collected_urls
            /\ pc = "scan" =>
                 /\ IsCheckpoint(checkpoint_file')
                 /\ checkpoint_file'.pass_phase = "scan"
                 /\ checkpoint_file'.last_page = page_num
                 /\ checkpoint_file'.collected_urls = collected_urls
                 /\ FirstPage(checkpoint_file') = page_num + 1]_vars
    /\ [][(pc \in {"scan", "uscan"} /\ consecutive_empty >= EMPTY_PAGE_THRESHOLD)
            => page_num' # page_num + 1]_vars

C33_Witness ==
    /\ pc = "scan"
    /\ ~scanned.fetched
    /\ consecutive_empty = EMPTY_PAGE_THRESHOLD
    /\ page_num <= MAX_PAGES
    /\ IsCheckpoint(checkpoint_file)
    /\ checkpoint_file.last_page = page_num - 1
    /\ Len(collected_urls) >= 1

\* C34: a call of fetch_with_retry returns None or a page without a denial
\* marker, which is the page of the first attempt that gave one: that
\* attempt is the last, and every attempt before it raised or gave a page
\* with a marker.  Whatever browser.fetch does, the iteration ends in the
\* next attempt or in the return, not in an exception.
C34_FetchResult ==
    /\ [](f_pc = "returned" /\ result # None =>
            /\ result \in HASHES
            /\ ~Denied(result)
            /\ tries # <<>>
            /\ tries[Len(tries)].outcome = "ok"
            /\ \A k \in 1..Len(tries) - 1 : tries[k].outcome \in {"block", "error"})
    /\ [](f_pc = "returned" /\ result = None =>
            \A k \in 1..Len(tries) : tries[k].outcome \in {"block", "error"})
    /\ [][f_pc = "try" =>
            /\ f_pc' \in {"try", "returned"}
            /\ tries'[Len(tries')].outcome = "ok" <=> (f_pc' = "returned" /\ result' # None)
            /\ f_pc' = "try" => result' = None]_vars

C34_Witness ==
    /\ f_pc = "returned"
    /\ result \in HASHES
    /\ Len(tries) = 3
    /\ tries[1].outcome = "error"
    /\ tries[2].outcome = "block"
    /\ tries[3].outcome = "ok"

\* The committed snapshots of a restaurant, oldest first.
SnapshotsOf(michelin_id) ==
    LET of(row) == row.michelin_id = michelin_id
    IN  SelectSeq(restaurant_history, of)

\* The calls that returned "modified" for a restaurant.
ModifiedCalls(michelin_id) ==
    { k \in 1..Len(returned_actions) :
        /\ returned_actions[k].michelin_id = michelin_id
        /\ returned_actions[k].action = "modified" }

\* C35: on a store that starts empty, between calls a restaurant has as
\* many committed snapshots as calls returned "modified" for it; and in
\* every committed state each snapshot goes with its overwrite: what is
\* stored differs from the latest snapshot, each snapshot differs from the
\* one before it, and a restaurant that has a snapshot is stored.  A call
\* commits what upsert_restaurant as a whole is to write.
C35_HistoryMatchesModifications ==
    /\ [](upsert_pc = "idle" =>
            \A m \in SLUGS : Len(SnapshotsOf(m)) = Cardinality(ModifiedCalls(m)))
    /\ [](\A m \in SLUGS :
            LET rows == SnapshotsOf(m)
            IN  /\ rows # <<>> => db[m] \notin {None, rows[Len(rows)].content_hash}
                /\ \A k \in 1..Len(rows) - 1 :
                     rows[k].content_hash # rows[k + 1].content_hash)
    /\ [][upsert_pc = "commit" /\ upsert_pc' = "idle" /\ returned_actions' # returned_actions =>
            /\ db' = UpsertTable(db, upsert_data)
            /\ restaurant_history' =
                  UpsertHistory(restaurant_history, db, upsert_data)]_vars

C35_Witness ==
    /\ upsert_pc = "idle"
    /\ Len(returned_actions) = MaxCalls
    /\ \E m \in SLUGS :
         /\ Cardinality(ModifiedCalls(m)) = 2
         /\ Len(SnapshotsOf(m)) = 2
         /\ db[m] = SnapshotsOf(m)[1].content_hash
         /\ \E k \in 1..Len(returned_actions) :
              /\ returned_actions[k].michelin_id # m
              /\ returned_actions[k].action = "added"

\* C36: a run of run_full_scrape whose calls all return reaches its end,
\* with the checkpoint file deleted and the statistics of every item it took
\* up; its scan takes at most MAX_PAGES pages and its fetch loop takes each
\* URL of remaining once.
C36_RunTerminates ==
    /\ (pc \in {"scan", "fetch", "batch"}) ~> (pc = "done" /\ checkpoint_file = NoFile)
    /\ [](pc = "scan" => page_num <= MAX_PAGES + 1)
    /\ [](pc \in {"fetch", "batch", "done"} =>
            /\ i <= Len(remaining)
            /\ Fetched = SubSeq(remaining, 1, i)
            /\ NoDup(remaining))
    /\ [](pc = "done" =>
            /\ i = Len(remaining)
            /\ StatsSum(total_stats) = Len(remaining))

C36_Witness ==
    /\ pc = "done"
    /\ checkpoint_file = NoFile
    /\ page_num = MAX_PAGES + 1
    /\ Len(remaining) = 3
    /\ total_stats.failed = 1
    /\ total_stats.modified = 1

====
